---- MODULE Spec2Model ----
(***************************************************************************)
(* Model of the order matcher (Disasm/matcher): an OrderBook of two        *)
(* price-time queues (bid, ask), the operation OrderBook::execute_order    *)
(* with the generic OrderQueueInsert::insert and                           *)
(* OrderQueueMatch::match_order, the VecDequeQueue container, the          *)
(* VectorLogger sink and the to_vec / from_vec pair.                       *)
(*                                                                         *)
(* Code indices are 0-based; a queue is a TLA+ sequence, so the element    *)
(* the code calls q[index] is q[index + 1] here.                           *)
(*                                                                         *)
(* Every Order record carries one field the code does not have, seq: the   *)
(* number of the execute_order call that created the order.  No operator   *)
(* of the model reads it; only the arrival-order properties do.            *)
(***************************************************************************)
EXTENDS Integers, Sequences, FiniteSets, TLC

\* ---- bounds of the model ----
MaxCalls == 3
MaxPrice == 2
MaxSize  == 3
MaxUser  == 2

Prices == 1..MaxPrice
Sizes  == 1..MaxSize
Users  == 1..MaxUser

\* ---- order.rs: enums ----
OrderSide == {"Buy", "Sell"}
OrderKind == {"Limit", "FillOrKill", "ImmediateOrCancel"}

\* Direction::Other
Other(D) == IF D = "Buy" THEN "Sell" ELSE "Buy"

\* The incoming orders the model submits (IncomingOrder, size > 0).
IncomingOrders ==
    [price_limit : Prices, size : Sizes, user_id : Users,
     kind : OrderKind, side : OrderSide]

\* ---- log.rs: LogItem ----
Enqueued(size)  == [item |-> "Enqueued", size |-> size]
FulfilledItem(size, price, user_id) ==
    [item |-> "Fulfilled", size |-> size, price |-> price, user_id |-> user_id]
Cancelled(size) == [item |-> "Cancelled", size |-> size]

\* A logger value is [type, items, trace]: type names the implementation of
\* ExecutionLogger, items is the VectorLogger's SmallVec (empty for the
\* DummyLogger, which has no storage); trace is a ghost, the sequence of
\* calls made on the logger (each item handed to log, or CancelCall for
\* cancel()).  No operator of the model reads trace.
CancelCall == [item |-> "cancel"]

\* VectorLogger::new
NewVectorLogger == << >>

VectorLogger(items) == [type |-> "VectorLogger", items |-> items,
                        trace |-> << >>]
DummyLogger == [type |-> "DummyLogger", items |-> << >>, trace |-> << >>]

\* VectorLogger::log: self.0.push(item)
\* (faulty variant: the item is put in front)
VectorLoggerLogMutPrepend(items, item) == <<item>> \o items
VectorLoggerLog(items, item) == Append(items, item)

\* VectorLogger::cancel: self.0.clear()
\* (faulty variant: nothing is cleared)
VectorLoggerCancelMutKeep(items) == items
VectorLoggerCancel(items) == << >>

\* DummyLogger::log and DummyLogger::cancel
DummyLoggerLog(items, item) == items
DummyLoggerCancel(items) == items

\* ExecutionLogger::log, dispatched on the implementation
Log(logger, item) ==
    [logger EXCEPT
       !.items = IF logger.type = "VectorLogger"
                 THEN VectorLoggerLog(@, item) ELSE DummyLoggerLog(@, item),
       !.trace = Append(@, item)]

\* ExecutionLogger::cancel, dispatched on the implementation
Cancel(logger) ==
    [logger EXCEPT
       !.items = IF logger.type = "VectorLogger"
                 THEN VectorLoggerCancel(@) ELSE DummyLoggerCancel(@),
       !.trace = Append(@, CancelCall)]

\* ---- order.rs ----
\* From<IncomingOrder> for TaggedOrder (the side is the tag; seq is the ghost)
TaggedOrderFrom(order, stamp) ==
    [price_limit |-> order.price_limit, size |-> order.size,
     user_id |-> order.user_id, seq |-> stamp]

\* Order<D>::price_matches: self is the passive order of side D
\* (faulty variant: strict comparison)
PriceMatchesMutStrict(D, self, other) ==
    IF D = "Buy" THEN other.price_limit < self.price_limit
                 ELSE other.price_limit > self.price_limit
\* (faulty variant: the two sides are confused)
PriceMatchesMutSwapped(D, self, other) ==
    IF D = "Buy" THEN other.price_limit >= self.price_limit
                 ELSE other.price_limit <= self.price_limit
PriceMatches(D, self, other) ==
    IF D = "Buy" THEN other.price_limit <= self.price_limit
                 ELSE other.price_limit >= self.price_limit

\* Order<D>::to_incoming
ToIncoming(D, o) ==
    [price_limit |-> o.price_limit, size |-> o.size, user_id |-> o.user_id,
     kind |-> "Limit", side |-> D]

\* ---- queues/vec_deque_queue.rs ----
\* Option<usize>, the result of insert_position
None == [some |-> FALSE]
Some(i) == [some |-> TRUE, index |-> i]

\* VecDequeQueue::insert_position: iter().position(predicate), 0-based.
\* The closure is given by its values: predicate[i] is the closure applied
\* to the element at position i of q.
\* (faulty variant: the last position the closure holds at)
InsertPositionMutLast(q, predicate) ==
    IF \E i \in 1..Len(q) : predicate[i]
    THEN Some((CHOOSE i \in 1..Len(q) :
                   predicate[i] /\ \A j \in (i+1)..Len(q) : ~predicate[j]) - 1)
    ELSE None
InsertPosition(q, predicate) ==
    IF \E i \in 1..Len(q) : predicate[i]
    THEN Some((CHOOSE i \in 1..Len(q) :
                   predicate[i] /\ \A j \in 1..(i-1) : ~predicate[j]) - 1)
    ELSE None

\* VecDequeQueue::push_back
PushBack(q, item) == Append(q, item)

\* VecDequeQueue::insert_at
InsertAt(q, index, item) ==
    IF index = 0 THEN <<item>> \o q
    ELSE SubSeq(q, 1, index) \o <<item>> \o SubSeq(q, index + 1, Len(q))

\* Queue::push_front (default method)
PushFront(q, item) == InsertAt(q, 0, item)

\* VecDequeQueue::drop_first_n: drain(0..count)
\* (faulty variant: the orders are taken off the back)
DropFirstNMutBack(q, count) ==
    SubSeq(q, 1, IF count > Len(q) THEN 0 ELSE Len(q) - count)
DropFirstN(q, count) == SubSeq(q, count + 1, Len(q))

\* drain(0..count) panics when the range ends beyond the queue
DropFirstNPanics(q, count) == count > Len(q)

\* ---- queues/reversed_vec.rs: the Vec holds the queue back to front ----
\* iteration order of ReversedVec: self.0.iter_mut().rev()
ReversedVecIter(v) == [i \in 1..Len(v) |-> v[Len(v) + 1 - i]]

\* ReversedVec::drop_first_n: self.0.truncate(self.0.len() - count).
\* With count > len the subtraction overflows: a build with overflow checks
\* panics there (ReversedVecDropFirstNPanics); a build without them wraps
\* to a length beyond the Vec's, and truncate leaves the Vec as it is.
ReversedVecDropFirstN(v, count) ==
    IF count > Len(v) THEN v ELSE SubSeq(v, 1, Len(v) - count)

\* self.0.len() - count overflows: the panic of a build with overflow checks
ReversedVecDropFirstNPanics(v, count) == count > Len(v)

\* ReversedVec::insert_position: self.0.iter().rev().position(predicate),
\* 0-based; predicate[i] is the closure applied to v[i]
ReversedVecInsertPosition(v, predicate) ==
    IF \E i \in 1..Len(v) : predicate[i]
    THEN Some(Len(v) - (CHOOSE i \in 1..Len(v) :
                           predicate[i] /\ \A j \in (i+1)..Len(v) :
                                              ~predicate[j]))
    ELSE None

\* ReversedVec::push_back: self.0.insert(0, item)
ReversedVecPushBack(v, item) == <<item>> \o v

\* ReversedVec::insert_at: push for index 0, else
\* self.0.insert(self.0.len() - index, item)
\* (faulty variant: the index is taken from the start of the Vec)
ReversedVecInsertAtMutFront(v, index, item) ==
    SubSeq(v, 1, index) \o <<item>> \o SubSeq(v, index + 1, Len(v))
ReversedVecInsertAt(v, index, item) ==
    IF index = 0 THEN Append(v, item)
    ELSE SubSeq(v, 1, Len(v) - index) \o <<item>>
         \o SubSeq(v, Len(v) - index + 1, Len(v))

\* push_front of a ReversedVec: the queue trait's default method,
\* insert_at(0, item)
ReversedVecPushFront(v, item) == ReversedVecInsertAt(v, 0, item)

\* ---- queues/simple_vec_queue.rs: the Vec holds the queue front to back ----
\* iteration order of SimpleVecQueue: self.0.iter_mut()
SimpleVecIter(v) == v

\* Vec::pop: removes the last element, None on an empty Vec
Pop(v) == IF v = << >> THEN v ELSE SubSeq(v, 1, Len(v) - 1)

\* SimpleVecQueue::drop_first_n: for _ in 0..count { self.0.pop(); }
RECURSIVE SimpleVecDropFirstN(_, _)
SimpleVecDropFirstN(v, count) ==
    IF count = 0 THEN v ELSE SimpleVecDropFirstN(Pop(v), count - 1)

\* iteration order of VecDequeQueue: self.0.iter_mut()
VecDequeIter(q) == q

\* ---- lib.rs: OrderQueueInsert::insert ----
\* the closure handed to insert_position
\* (faulty variant: equal prices count as worse)
InsertPredicateMutWeak(D, o, order) ==
    IF D = "Buy" THEN o.price_limit <= order.price_limit
                 ELSE o.price_limit >= order.price_limit
InsertPredicate(D, o, order) ==
    IF D = "Buy" THEN o.price_limit < order.price_limit
                 ELSE o.price_limit > order.price_limit

\* (faulty variant: always push_back)
InsertMutAppend(D, q, order) == PushBack(q, order)
Insert(D, q, order) ==
    LET predicate == [i \in 1..Len(q) |-> InsertPredicate(D, q[i], order)]
        index == InsertPosition(q, predicate)
    IN  IF index.some THEN InsertAt(q, index.index, order)
        ELSE PushBack(q, order)

\* ---- lib.rs: OrderQueueMatch::match_order ----
\* std::cmp::min (lib.rs:73)
\* (faulty variants: the first argument is taken / the second is)
MinMutFirst(a, b) == a
MinMutSecond(a, b) == b
Min(a, b) == IF a < b THEN a ELSE b

\* a -= b on u64 overflows when b exceeds a: a build with overflow checks
\* panics there, which panic records
SubOverflows(a, b) == b > a

\* the self-trade test of the walk (lib.rs:67)
\* (faulty variant: the test is missing)
SameUserMutNever(passive_order, order) == FALSE
SameUser(passive_order, order) == passive_order.user_id = order.user_id

\* drop_first after a trade (lib.rs:82-86)
\* (faulty variants: the traded order is always dropped / never dropped)
DropFirstAfterTradeMutAlwaysNext(passive_size, size, index) == index + 1
DropFirstAfterTradeMutKeep(passive_size, size, index) == index
DropFirstAfterTrade(passive_size, size, index) ==
    IF passive_size = size THEN index + 1 ELSE index

\* the passive order's size after a trade: decremented only on the walk's
\* stopping iteration, when the active order is filled (lib.rs:88-91)
\* (faulty variant: decremented on every trade)
PassiveSizeAfterTradeMutEager(passive_size, size, order_size) ==
    passive_size - size
PassiveSizeAfterTrade(passive_size, size, order_size) ==
    IF order_size = 0 THEN passive_size - size ELSE passive_size

\* The walk self.iterate(|passive_order, index| ...) from position index on.
\* w holds what the closure captures and mutates: the queue, order.size,
\* retained, drop_first and the logger; w.panic records that a subtraction
\* of the walk overflowed.
RECURSIVE Iterate(_, _, _, _)
Iterate(D, order, w, index) ==
    IF index >= Len(w.q) THEN w
    ELSE
      LET passive_order == w.q[index + 1] IN
      IF ~PriceMatches(D, passive_order, order) THEN w
      ELSE IF SameUser(passive_order, order)
      THEN Iterate(D, order,
                   [w EXCEPT !.retained = Append(@, passive_order),
                             !.drop_first = index + 1],
                   index + 1)
      ELSE
        LET size == Min(w.size, passive_order.size)
            order_size == w.size - size
            w2 == [w EXCEPT
                     !.size = order_size,
                     !.logger = Log(@, FulfilledItem(size,
                                       passive_order.price_limit,
                                       passive_order.user_id)),
                     !.drop_first = DropFirstAfterTrade(passive_order.size,
                                                        size, index),
                     !.q[index + 1].size =
                         PassiveSizeAfterTrade(passive_order.size, size,
                                               order_size),
                     !.panic = \/ @
                               \/ SubOverflows(w.size, size)
                               \/ /\ order_size = 0
                                  /\ SubOverflows(passive_order.size, size)]
        IN  IF order_size = 0 THEN w2
            ELSE Iterate(D, order, w2, index + 1)

\* retained.into_iter().rev(): push_front each, last retained first
\* (faulty variant: pushed in the order retained, first retained first)
PushRetainedMutForward(q, retained) ==
    [i \in 1..Len(retained) |-> retained[Len(retained) + 1 - i]] \o q
RECURSIVE PushRetained(_, _)
PushRetained(q, retained) ==
    IF retained = << >> THEN q
    ELSE PushRetained(PushFront(q, retained[Len(retained)]),
                      SubSeq(retained, 1, Len(retained) - 1))

\* the failed-FoK test after the walk (lib.rs:95)
\* (faulty variants: an unfilled IoC is killed too / any unfilled order is)
IsKilledMutIoC(kind, order_size) ==
    kind \in {"FillOrKill", "ImmediateOrCancel"} /\ order_size # 0
IsKilledMutAlways(kind, order_size) == order_size # 0
IsKilled(kind, order_size) == kind = "FillOrKill" /\ order_size # 0

\* match_order on the queue q of side D; order is the active order of side
\* Other(D).  Yields the queue, the active order and the logger afterwards,
\* and panic: whether the call ran into a panic (an overflowing
\* subtraction in the walk, or drop_first_n beyond the queue).
\* (faulty variant: a walk whose logger holds none of the items it was
\* given is taken as rolled back)
MatchOrderMutSinkGuard(D, q, order, kind, logger) ==
    LET initial_size == order.size
        w == Iterate(D, order,
                     [q |-> q, size |-> order.size, retained |-> << >>,
                      drop_first |-> 0, logger |-> logger,
                      panic |-> FALSE], 0)
    IN  IF \/ IsKilled(kind, w.size)
           \/ w.logger.trace # << >> /\ w.logger.items = << >>
        THEN [q |-> w.q,
              order |-> [order EXCEPT !.size = initial_size],
              logger |-> Cancel(w.logger),
              panic |-> w.panic]
        ELSE [q |-> PushRetained(
                      IF w.drop_first > 0 THEN DropFirstN(w.q, w.drop_first)
                                          ELSE w.q,
                      w.retained),
              order |-> [order EXCEPT !.size = w.size],
              logger |-> w.logger,
              panic |-> w.panic]
MatchOrder(D, q, order, kind, logger) ==
    LET initial_size == order.size
        w == Iterate(D, order,
                     [q |-> q, size |-> order.size, retained |-> << >>,
                      drop_first |-> 0, logger |-> logger,
                      panic |-> FALSE], 0)
    IN  IF IsKilled(kind, w.size)
        THEN [q |-> w.q,
              order |-> [order EXCEPT !.size = initial_size],
              logger |-> Cancel(w.logger),
              panic |-> w.panic]
        ELSE [q |-> PushRetained(
                      IF w.drop_first > 0 THEN DropFirstN(w.q, w.drop_first)
                                          ELSE w.q,
                      w.retained),
              order |-> [order EXCEPT !.size = w.size],
              logger |-> w.logger,
              panic |-> \/ w.panic
                        \/ /\ w.drop_first > 0
                           /\ DropFirstNPanics(w.q, w.drop_first)]

\* ---- lib.rs: insert and match_order on a ReversedVec ----
\* OrderQueueInsert::insert with Q = ReversedVec
ReversedVecInsert(D, v, order) ==
    LET predicate == [i \in 1..Len(v) |-> InsertPredicate(D, v[i], order)]
        index == ReversedVecInsertPosition(v, predicate)
    IN  IF index.some THEN ReversedVecInsertAt(v, index.index, order)
        ELSE ReversedVecPushBack(v, order)

\* retained.into_iter().rev(): push_front each, on a ReversedVec
RECURSIVE ReversedVecPushRetained(_, _)
ReversedVecPushRetained(v, retained) ==
    IF retained = << >> THEN v
    ELSE ReversedVecPushRetained(
             ReversedVecPushFront(v, retained[Len(retained)]),
             SubSeq(retained, 1, Len(retained) - 1))

\* OrderQueueMatch::match_order with Q = ReversedVec: ReversedVec::iterate
\* hands the closure the elements of the Vec from its back, so the walk
\* runs over ReversedVecIter(v) and changes the sizes in place
ReversedVecMatchOrder(D, v, order, kind, logger) ==
    LET initial_size == order.size
        w == Iterate(D, order,
                     [q |-> ReversedVecIter(v), size |-> order.size,
                      retained |-> << >>, drop_first |-> 0,
                      logger |-> logger, panic |-> FALSE], 0)
        walked == ReversedVecIter(w.q)
    IN  IF IsKilled(kind, w.size)
        THEN [q |-> walked,
              order |-> [order EXCEPT !.size = initial_size],
              logger |-> Cancel(w.logger),
              panic |-> w.panic]
        ELSE [q |-> ReversedVecPushRetained(
                      IF w.drop_first > 0
                      THEN ReversedVecDropFirstN(walked, w.drop_first)
                      ELSE walked,
                      w.retained),
              order |-> [order EXCEPT !.size = w.size],
              logger |-> w.logger,
              panic |-> \/ w.panic
                        \/ /\ w.drop_first > 0
                           /\ ReversedVecDropFirstNPanics(walked,
                                                          w.drop_first)]

\* ---- lib.rs: OrderBook ----
\* OrderBook::new
NewBook == [bid |-> << >>, ask |-> << >>]

\* the residual of a Limit order goes to the queue of its own side
\* (lib.rs:157-160)
\* (faulty variant: it goes to the other queue)
EnqueueMutOtherSide(book, side, order) ==
    IF side = "Buy" THEN [book EXCEPT !.ask = Insert("Sell", @, order)]
                    ELSE [book EXCEPT !.bid = Insert("Buy", @, order)]
Enqueue(book, side, order) ==
    IF side = "Buy" THEN [book EXCEPT !.bid = Insert("Buy", @, order)]
                    ELSE [book EXCEPT !.ask = Insert("Sell", @, order)]

\* the kind whose residual rests in the book: the OrderKind::Limit arm
\* (faulty variant: the residual of an IoC order rests too)
RestsMutIoC(kind) == kind \in {"Limit", "ImmediateOrCancel"}
Rests(kind) == kind = "Limit"

\* OrderBook::execute_order on book with the given logger; stamp is the
\* ghost arrival number of this call.
ExecuteOrderOn(book, order, logger, stamp) ==
    LET kind == order.kind
        tagged == TaggedOrderFrom(order, stamp)
        m == IF order.side = "Buy"
             THEN MatchOrder("Sell", book.ask, tagged, kind, logger)
             ELSE MatchOrder("Buy", book.bid, tagged, kind, logger)
        matched == IF order.side = "Buy"
                   THEN [book EXCEPT !.ask = m.q]
                   ELSE [book EXCEPT !.bid = m.q]
        size == m.order.size
    IN  IF size > 0
        THEN CASE Rests(kind) ->
                    [book |-> Enqueue(matched, order.side, m.order),
                     logger |-> Log(m.logger, Enqueued(size)),
                     panic |-> m.panic]
               [] kind = "FillOrKill" ->
                    [book |-> matched,
                     logger |-> Log(m.logger, Cancelled(size)),
                     panic |-> m.panic]
               [] kind = "ImmediateOrCancel" ->
                    [book |-> matched,
                     logger |-> Log(m.logger, Cancelled(size)),
                     panic |-> m.panic]
        ELSE [book |-> matched, logger |-> m.logger, panic |-> m.panic]

\* OrderBook::to_vec: the bids from the back of the queue to its front
\* ((&self.bid).into_iter().rev()), then the asks from the front
Reverse(q) == [i \in 1..Len(q) |-> q[Len(q) + 1 - i]]

ToVec(book) ==
    [i \in 1..Len(book.bid) |-> ToIncoming("Buy", Reverse(book.bid)[i])]
    \o [i \in 1..Len(book.ask) |-> ToIncoming("Sell", book.ask[i])]

\* OrderBook::from_vec: execute every order on a new book with a DummyLogger
RECURSIVE FromVecLoop(_, _, _)
FromVecLoop(book, orders, k) ==
    IF k > Len(orders) THEN book
    ELSE FromVecLoop(ExecuteOrderOn(book, orders[k], DummyLogger, k).book,
                     orders, k + 1)

FromVec(orders) == FromVecLoop(NewBook, orders, 1)

\* ---- state ----
VARIABLES
    bid,     \* OrderBook.bid, index 0 (position 1) is the best bid
    ask,     \* OrderBook.ask, position 1 is the best ask
    logger,  \* the caller's VectorLogger (its SmallVec of LogItems)
    trace,   \* ghost: the logger calls made by the latest execute_order call
    last,    \* ghost: the IncomingOrder of the latest execute_order call
    calls,   \* ghost: number of execute_order calls made so far
    panicked \* an execute_order call panicked; the program has stopped

vars == <<bid, ask, logger, trace, last, calls, panicked>>

NoOrder == [price_limit |-> 0, size |-> 0, user_id |-> 0,
            kind |-> "Limit", side |-> "Buy"]

Init ==
    /\ bid = << >>
    /\ ask = << >>
    /\ logger = NewVectorLogger
    /\ trace = << >>
    /\ last = NoOrder
    /\ calls = 0
    /\ panicked = FALSE

\* book.execute_order(order, &mut logger)
ExecuteOrder(order) ==
    /\ ~panicked
    /\ calls < MaxCalls
    /\ \E r \in {ExecuteOrderOn([bid |-> bid, ask |-> ask], order,
                                  VectorLogger(logger),
                                  calls + 1)} :
           /\ bid' = r.book.bid
           /\ ask' = r.book.ask
           /\ logger' = r.logger.items
           /\ trace' = r.logger.trace
           /\ panicked' = r.panic
    /\ last' = order
    /\ calls' = calls + 1

\* the caller replaces its logger: let mut logger = VectorLogger::new()
NewLogger ==
    /\ ~panicked
    /\ logger # NewVectorLogger
    /\ logger' = NewVectorLogger
    /\ UNCHANGED <<bid, ask, trace, last, calls, panicked>>

Next ==
    \/ \E order \in IncomingOrders : ExecuteOrder(order)
    \/ NewLogger

Spec == Init /\ [][Next]_vars

\* The callers that also submit orders of size 0: IncomingOrder.size is a
\* u64 and the parser takes "#0".
ZeroOrders ==
    [price_limit : Prices, size : {0}, user_id : Users,
     kind : OrderKind, side : OrderSide]

NextZero ==
    \/ \E order \in IncomingOrders \cup ZeroOrders : ExecuteOrder(order)
    \/ NewLogger

SpecZero == Init /\ [][NextZero]_vars


\* ======================================================================
\* Properties
\* ======================================================================

\* -- vocabulary of the properties (none of it is used by the model) --

\* the step is an execute_order call
IsCall == calls' = calls + 1

\* the queue an incoming order o is matched against, in book (b, a)
Opposing(o, b, a) == IF o.side = "Buy" THEN a ELSE b
\* the queue of the incoming order's own side
OwnSide(o, b, a) == IF o.side = "Buy" THEN b ELSE a

\* passive order p is price-compatible with the incoming order o
Compatible(o, p) ==
    IF o.side = "Buy" THEN p.price_limit <= o.price_limit
                      ELSE p.price_limit >= o.price_limit

RECURSIVE SumSizes(_)
SumSizes(seq) ==
    IF seq = << >> THEN 0 ELSE seq[1].size + SumSizes(Tail(seq))

\* the resting size an incoming order o can trade with in queue q: the
\* price-compatible orders of other users
Liquidity(o, q) ==
    LET T(p) == Compatible(o, p) /\ p.user_id # o.user_id
    IN  SumSizes(SelectSeq(q, T))

\* o is a FoK order that cannot be completely filled from q
FokFails(o, q) == o.kind = "FillOrKill" /\ Liquidity(o, q) < o.size

IsFulfilled(x) == x.item = "Fulfilled"
Fulfilleds(seq) == SelectSeq(seq, IsFulfilled)
IsLogged(x) == x.item # "cancel"
\* the items a call handed to log(), in order
LoggedItems(t) == SelectSeq(t, IsLogged)

\* a queue without the ghost field
Fields(q) ==
    [i \in 1..Len(q) |->
        [price_limit |-> q[i].price_limit, size |-> q[i].size,
         user_id |-> q[i].user_id]]

\* ---------------------------------------------------------------------
\* C1: a FillOrKill order that cannot be completely filled leaves both
\* queues exactly as they were before the call (every entry, every field,
\* every index), also when passive orders covered part of it.
C1_FokAtomicity ==
    [][(IsCall /\ FokFails(last', Opposing(last', bid, ask)))
         => (bid' = bid /\ ask' = ask)]_vars

\* a killed FoK whose walk traded with another user's order and passed a
\* same-user order before it was rolled back
C1_Witness ==
    /\ calls > 0
    /\ last.kind = "FillOrKill"
    /\ LET q == Opposing(last, bid, ask)
       IN  /\ 0 < Liquidity(last, q)
           /\ Liquidity(last, q) < last.size
           /\ \E i \in 1..Len(q) :
                 Compatible(last, q[i]) /\ q[i].user_id = last.user_id
    /\ \E k \in 1..Len(trace) : trace[k].item = "Fulfilled"
    /\ \E k \in 1..Len(trace) : trace[k] = CancelCall

\* ---------------------------------------------------------------------
\* C2: a FillOrKill order executed with a fresh VectorLogger leaves in it
\* exactly <<Cancelled(initial size)>> when it cannot be completely filled,
\* and otherwise only Fulfilled items whose sizes sum to the initial size.
C2_FokLog ==
    [][(IsCall /\ last'.kind = "FillOrKill" /\ logger = NewVectorLogger)
         => IF FokFails(last', Opposing(last', bid, ask))
            THEN logger' = <<Cancelled(last'.size)>>
            ELSE /\ \A k \in 1..Len(logger') : logger'[k].item = "Fulfilled"
                 /\ SumSizes(logger') = last'.size]_vars

\* a FoK filled by two passive orders
C2_Witness ==
    /\ last.kind = "FillOrKill"
    /\ Len(logger) = 2
    /\ \A k \in 1..2 : logger[k].item = "Fulfilled"
    /\ SumSizes(logger) = last.size
    /\ trace = logger

\* ---------------------------------------------------------------------
\* C3: after every call the bid queue is sorted by non-increasing
\* price_limit and the ask queue by non-decreasing price_limit.
C3_Sorted ==
    /\ \A i \in 1..(Len(bid) - 1) : bid[i].price_limit >= bid[i+1].price_limit
    /\ \A i \in 1..(Len(ask) - 1) : ask[i].price_limit <= ask[i+1].price_limit

\* an order that arrived later rests in front of an earlier one
C3_Witness ==
    \/ /\ Len(bid) >= 2
       /\ bid[1].price_limit > bid[2].price_limit
       /\ bid[1].seq > bid[2].seq
       /\ Len(ask) >= 1
    \/ /\ Len(ask) >= 2
       /\ ask[1].price_limit < ask[2].price_limit
       /\ ask[1].seq > ask[2].seq
       /\ Len(bid) >= 1

\* ---------------------------------------------------------------------
\* C4: within each queue two resting orders of equal price_limit appear in
\* order of arrival: the one whose execute_order call came earlier sits at
\* the lower index.
FifoOnTies(q) ==
    \A i, j \in 1..Len(q) :
        (i < j /\ q[i].price_limit = q[j].price_limit) => q[i].seq < q[j].seq

C4_Fifo == FifoOnTies(bid) /\ FifoOnTies(ask)

\* two equal-price asks after a Buy that skipped (and restored) the first,
\* a same-user order, and partially filled the second
C4_Witness ==
    /\ last.side = "Buy"
    /\ Len(ask) = 2
    /\ ask[1].price_limit = ask[2].price_limit
    /\ ask[1].user_id = last.user_id
    /\ ask[2].user_id # last.user_id
    /\ Compatible(last, ask[1])
    /\ trace = <<FulfilledItem(1, ask[2].price_limit, ask[2].user_id)>>

\* ---------------------------------------------------------------------
\* C5 as stated: if both queues are non-empty the best bid is strictly
\* below the best ask.
C5_StrictNonCrossing ==
    (bid # << >> /\ ask # << >>) => bid[1].price_limit < ask[1].price_limit

\* C5 amended: if both queues are non-empty and the best bid and the best
\* ask belong to different users, the best bid is strictly below the best
\* ask.
C5_NonCrossingOtherUsers ==
    (bid # << >> /\ ask # << >> /\ bid[1].user_id # ask[1].user_id)
        => bid[1].price_limit < ask[1].price_limit

\* the latest call traded, rested its residual, and the two best orders
\* belong to different users
C5_Witness ==
    /\ bid # << >> /\ ask # << >>
    /\ bid[1].user_id # ask[1].user_id
    /\ Len(trace) = 2
    /\ trace[1].item = "Fulfilled"
    /\ trace[2].item = "Enqueued"

\* ---------------------------------------------------------------------
\* C6: after every call every resting order has size > 0; a passive order
\* driven to zero by a match is gone from the queue.
C6_PositiveSize ==
    /\ \A i \in 1..Len(bid) : bid[i].size > 0
    /\ \A i \in 1..Len(ask) : ask[i].size > 0

\* the second call consumed the only resting order entirely
C6_Witness ==
    /\ calls = 2
    /\ Len(trace) >= 1
    /\ trace[1].item = "Fulfilled"
    /\ Opposing(last, bid, ask) = << >>

\* ---------------------------------------------------------------------
\* C7: no call hands the logger a Fulfilled item whose user_id is the
\* incoming order's (items that a rollback later discards included), and
\* every resting order of the incoming order's user in the opposing queue
\* is in that queue after the call with its size, price and user unchanged.
C7_NoSelfTrade ==
    [][IsCall =>
        /\ \A k \in 1..Len(trace') :
              trace'[k].item = "Fulfilled"
                  => trace'[k].user_id # last'.user_id
        /\ LET pre  == Opposing(last', bid, ask)
               post == Opposing(last', bid', ask')
           IN  \A i \in 1..Len(pre) :
                  pre[i].user_id = last'.user_id
                      => \E j \in 1..Len(post) : post[j] = pre[i]]_vars

\* the walk passed a price-compatible order of the same user at the front
\* and went on to trade with another user's order
C7_Witness ==
    /\ calls > 0
    /\ LET q == Opposing(last, bid, ask)
       IN  /\ q # << >>
           /\ q[1].user_id = last.user_id
           /\ Compatible(last, q[1])
    /\ \E k \in 1..Len(trace) : trace[k].item = "Fulfilled"

\* ---------------------------------------------------------------------
\* C8: for every call that is not a failed FoK, the Fulfilled sizes of the
\* call sum to (a) the initial size minus the residual (the size Enqueued
\* or Cancelled, else 0) and (b) the decrease of the opposing queue's total
\* resting size.
Residual(t) ==
    IF t # << >> /\ t[Len(t)].item \in {"Enqueued", "Cancelled"}
    THEN t[Len(t)].size ELSE 0

C8_Conservation ==
    [][(IsCall /\ ~FokFails(last', Opposing(last', bid, ask))) =>
        /\ SumSizes(Fulfilleds(trace')) = last'.size - Residual(trace')
        /\ SumSizes(Fulfilleds(trace')) =
              SumSizes(Opposing(last', bid, ask))
                - SumSizes(Opposing(last', bid', ask'))]_vars

\* two fills, the second one partial: its passive order still rests
C8_Witness ==
    /\ calls = 3
    /\ Len(trace) = 2
    /\ trace[1].item = "Fulfilled"
    /\ trace[2].item = "Fulfilled"
    /\ Len(Opposing(last, bid, ask)) = 1

\* ---------------------------------------------------------------------
\* C9: for every reachable book, OrderBook::from_vec(book.to_vec()) has the
\* same entries (price_limit, size, user_id) at the same indices of both
\* queues.
C9_RoundTrip ==
    LET copy == FromVec(ToVec([bid |-> bid, ask |-> ask]))
    IN  /\ Fields(copy.bid) = Fields(bid)
        /\ Fields(copy.ask) = Fields(ask)

\* ---------------------------------------------------------------------
\* C10: the items one call logs are zero or more Fulfilled items followed
\* by at most one Enqueued or Cancelled item, and the Fulfilled items name
\* passive orders of the opposing queue in increasing index order.
RECURSIVE InWalkOrder(_, _, _)
\* the fills name orders of q at increasing positions >= from
InWalkOrder(fills, q, from) ==
    IF fills = << >> THEN TRUE
    ELSE /\ \E i \in from..Len(q) :
               /\ q[i].price_limit = fills[1].price
               /\ q[i].user_id = fills[1].user_id
               /\ fills[1].size <= q[i].size
               /\ InWalkOrder(Tail(fills), q, i + 1)

FulfilledThenTerminal(items) ==
    \A k \in 1..(Len(items) - 1) : items[k].item = "Fulfilled"

C10_LogOrder ==
    [][IsCall =>
        /\ FulfilledThenTerminal(LoggedItems(trace'))
        /\ InWalkOrder(Fulfilleds(trace'), Opposing(last', bid, ask), 1)
        /\ logger = NewVectorLogger =>
              /\ FulfilledThenTerminal(logger')
              /\ InWalkOrder(Fulfilleds(logger'),
                             Opposing(last', bid, ask), 1)]_vars

\* a call that logged two fills and then its terminal item
C10_Witness ==
    /\ Len(logger) = 3
    /\ trace = logger
    /\ logger[1].item = "Fulfilled"
    /\ logger[2].item = "Fulfilled"
    /\ logger[3].item \in {"Enqueued", "Cancelled"}


\* ---------------------------------------------------------------------
\* more vocabulary of the properties

IsCancelCall(x) == x = CancelCall
\* how often the call called cancel()
CancelCalls(t) == Len(SelectSeq(t, IsCancelCall))

\* the part of an order of size n that liquidity liq fills
Filled(n, liq) == IF liq < n THEN liq ELSE n

\* sequence seq without its element at position p
Remove(seq, p) == SubSeq(seq, 1, p - 1) \o SubSeq(seq, p + 1, Len(seq))

\* all items but the last are Fulfilled and the last one is item x
EndsWith(t, x) ==
    /\ t # << >>
    /\ t[Len(t)] = x
    /\ \A k \in 1..(Len(t) - 1) : t[k].item = "Fulfilled"

OnlyFulfilled(t) == \A k \in 1..Len(t) : t[k].item = "Fulfilled"

\* ---------------------------------------------------------------------
\* C11 as stated: with one VectorLogger passed to a sequence of calls, the
\* logger's content after a call is its content before the call followed
\* by the call's own items (for a failed FoK: its Cancelled item).
OwnItems(o, q, t) ==
    IF FokFails(o, q) THEN <<Cancelled(o.size)>> ELSE LoggedItems(t)

C11_LogConcatenation ==
    [][IsCall =>
        logger' = logger \o OwnItems(last', Opposing(last', bid, ask),
                                     trace')]_vars

\* C11 amended: a call that is not a failed FoK appends its own items to
\* the logger's content; a failed FoK clears the whole logger, the items
\* of earlier calls included, and leaves exactly its Cancelled item.
C11_RollbackClearsAll ==
    [][IsCall =>
        IF FokFails(last', Opposing(last', bid, ask))
        THEN logger' = <<Cancelled(last'.size)>>
        ELSE logger' = logger \o LoggedItems(trace')]_vars

\* the third call on a book of two resting orders is a FoK that traded and
\* was rolled back; only its Cancelled item is in the logger
C11_Witness ==
    /\ calls = 3
    /\ last.kind = "FillOrKill"
    /\ Len(Opposing(last, bid, ask)) = 2
    /\ \E k \in 1..Len(trace) : trace[k].item = "Fulfilled"
    /\ CancelCalls(trace) = 1
    /\ logger = <<Cancelled(last.size)>>

\* ---------------------------------------------------------------------
\* C12: a Limit order with residual r > 0 logs Enqueued(r) as its last
\* item, after Fulfilled items only, and its own side's queue gains exactly
\* one order (the order's price and user, size r); an order that matched
\* nothing is enqueued with its submitted size; with r = 0 only Fulfilled
\* items are logged and the own side's queue is unchanged.
C12_LimitResidual ==
    [][(IsCall /\ last'.kind = "Limit") =>
        LET o    == last'
            liq  == Liquidity(o, Opposing(o, bid, ask))
            r    == o.size - Filled(o.size, liq)
            own  == OwnSide(o, bid, ask)
            own2 == OwnSide(o, bid', ask')
            t    == trace'
        IN  IF r > 0
            THEN /\ EndsWith(t, Enqueued(r))
                 /\ Fulfilleds(t) = << >> => t = <<Enqueued(o.size)>>
                 /\ Len(own2) = Len(own) + 1
                 /\ \E p \in 1..Len(own2) :
                       /\ own2[p].price_limit = o.price_limit
                       /\ own2[p].user_id = o.user_id
                       /\ own2[p].size = r
                       /\ own2[p].seq = calls'
                       /\ Remove(own2, p) = own
            ELSE /\ OnlyFulfilled(t)
                 /\ t # << >>
                 /\ own2 = own]_vars

\* a Limit order was partly filled and rests behind nothing but itself and
\* an earlier order of its side
C12_Witness ==
    /\ last.kind = "Limit"
    /\ Len(trace) = 2
    /\ trace[1].item = "Fulfilled"
    /\ trace[2] = Enqueued(last.size - trace[1].size)
    /\ Len(OwnSide(last, bid, ask)) = 2

\* ---------------------------------------------------------------------
\* C13: an ImmediateOrCancel order is filled from the price-compatible
\* orders of other users, in walk order, until it is filled or they are
\* used up; the fills stay in the logger and come off the opposing queue;
\* a residual r > 0 is logged as one final Cancelled(r), r being the
\* unfilled remainder; nothing is inserted into either queue.
C13_ImmediateOrCancel ==
    [][(IsCall /\ last'.kind = "ImmediateOrCancel") =>
        LET o    == last'
            opp  == Opposing(o, bid, ask)
            opp2 == Opposing(o, bid', ask')
            n    == Filled(o.size, Liquidity(o, opp))
            r    == o.size - n
            t    == trace'
        IN  /\ SumSizes(Fulfilleds(t)) = n
            /\ InWalkOrder(Fulfilleds(t), opp, 1)
            /\ CancelCalls(t) = 0
            /\ logger' = logger \o t
            /\ IF r > 0 THEN EndsWith(t, Cancelled(r)) /\ Liquidity(o, opp2) = 0
                        ELSE OnlyFulfilled(t)
            /\ SumSizes(opp) - SumSizes(opp2) = n
            /\ \A j \in 1..Len(opp2) :
                  \E i \in 1..Len(opp) : opp[i].seq = opp2[j].seq
            /\ OwnSide(o, bid', ask') = OwnSide(o, bid, ask)]_vars

\* an IoC order of size 3 took two passive orders and cancelled the rest
C13_Witness ==
    /\ last.kind = "ImmediateOrCancel"
    /\ Len(trace) = 3
    /\ trace[1].item = "Fulfilled"
    /\ trace[2].item = "Fulfilled"
    /\ trace[3] = Cancelled(last.size - trace[1].size - trace[2].size)
    /\ trace[3].size < last.size

\* ---------------------------------------------------------------------
\* C14: every Fulfilled item carries the price_limit and user_id of a
\* passive order of another user, met in index order; its size is the
\* minimum of the incoming order's remaining size and the passive order's
\* size; its price is compatible with the incoming order's limit.
RECURSIVE FillsFaithful(_, _, _, _, _)
FillsFaithful(fills, q, from, remaining, o) ==
    IF fills = << >> THEN TRUE
    ELSE LET f == fills[1] IN
         /\ IF o.side = "Buy" THEN f.price <= o.price_limit
                              ELSE f.price >= o.price_limit
         /\ \E i \in from..Len(q) :
               /\ q[i].price_limit = f.price
               /\ q[i].user_id = f.user_id
               /\ q[i].user_id # o.user_id
               /\ f.size = IF remaining < q[i].size THEN remaining
                                                    ELSE q[i].size
               /\ FillsFaithful(Tail(fills), q, i + 1, remaining - f.size, o)

C14_FulfilledItems ==
    [][IsCall =>
        FillsFaithful(Fulfilleds(trace'), Opposing(last', bid, ask), 1,
                      last'.size, last')]_vars

\* two fills at a price other than the incoming order's limit, the second
\* one smaller than its passive order
C14_Witness ==
    /\ Len(trace) = 2
    /\ trace[1].item = "Fulfilled"
    /\ trace[2].item = "Fulfilled"
    /\ trace[1].price # last.price_limit
    /\ trace[1].user_id # last.user_id
    /\ Opposing(last, bid, ask) # << >>
    /\ Opposing(last, bid, ask)[1].user_id = trace[2].user_id

\* ---------------------------------------------------------------------
\* C15: after a committed match (not a failed FoK) the same-user passive
\* orders the walk skipped are the leading entries of the opposing queue,
\* unchanged and in the relative order they had before the call.
RECURSIVE Skipped(_, _, _, _)
\* the same-user orders a walk over q from position i passes, the incoming
\* order o having remaining size left
Skipped(o, q, i, remaining) ==
    IF i > Len(q) \/ remaining = 0 THEN << >>
    ELSE IF ~Compatible(o, q[i]) THEN << >>
    ELSE IF q[i].user_id = o.user_id
         THEN <<q[i]>> \o Skipped(o, q, i + 1, remaining)
         ELSE Skipped(o, q, i + 1,
                      remaining - Filled(remaining, q[i].size))

C15_SkippedRestored ==
    [][(IsCall /\ ~FokFails(last', Opposing(last', bid, ask))) =>
        LET sk   == Skipped(last', Opposing(last', bid, ask), 1, last'.size)
            opp2 == Opposing(last', bid', ask')
        IN  /\ Len(opp2) >= Len(sk)
            /\ SubSeq(opp2, 1, Len(sk)) = sk]_vars

\* the walk skipped two orders of the incoming order's user
C15_Witness ==
    /\ calls = 3
    /\ CancelCalls(trace) = 0
    /\ LET q == Opposing(last, bid, ask)
       IN  /\ Len(q) = 2
           /\ \A i \in 1..2 :
                 q[i].user_id = last.user_id /\ Compatible(last, q[i])
           /\ q[1].price_limit # q[2].price_limit

\* ---------------------------------------------------------------------
\* C16: no call panics: at commit drop_first is at most the length of the
\* opposing queue, and neither the active order's nor the passive order's
\* size is decremented below zero.
C16_Infallible == panicked = FALSE

\* a call whose two trades consumed the whole opposing queue: drop_first
\* was the queue's length
C16_Witness ==
    /\ calls = 3
    /\ ~panicked
    /\ Len(Fulfilleds(trace)) = 2
    /\ CancelCalls(trace) = 0
    /\ Opposing(last, bid, ask) = << >>

\* ---------------------------------------------------------------------
\* the truncate contract: dropping the first n elements of a queue that
\* iterates as before leaves a queue that iterates as after
TruncateContract(before, after, n) ==
    after = SubSeq(before, n + 1, Len(before))

VecDequeMeets(q) ==
    \A n \in 0..Len(q) :
        TruncateContract(q, VecDequeIter(DropFirstN(q, n)), n)

\* the ReversedVec that iterates as q holds q back to front
ReversedVecMeets(q) ==
    \A n \in 0..Len(q) :
        TruncateContract(q,
            ReversedVecIter(ReversedVecDropFirstN(ReversedVecIter(q), n)), n)

SimpleVecMeets(q) ==
    \A n \in 0..Len(q) :
        TruncateContract(q, SimpleVecIter(SimpleVecDropFirstN(q, n)), n)

\* VecDequeQueue and ReversedVec meet the truncate contract on every queue
\* the book reaches
TruncateContractOfDeques ==
    \A q \in {Fields(bid), Fields(ask)} :
        VecDequeMeets(q) /\ ReversedVecMeets(q)

\* C17 as stated: each of VecDequeQueue, ReversedVec and SimpleVecQueue,
\* holding the orders of a queue of the book, drops with drop_first_n(n),
\* n <= len, exactly the first n orders in iteration order and keeps the
\* others in their order.
C17_TruncateContract ==
    \A q \in {Fields(bid), Fields(ask)} :
        VecDequeMeets(q) /\ ReversedVecMeets(q) /\ SimpleVecMeets(q)

\* ---------------------------------------------------------------------
\* C18: a call that enqueues places the new order at the first position
\* whose order has a strictly worse price (Buy queue: lower, Sell queue:
\* higher), at the tail if there is none; the queue grows by one and the
\* other entries keep their order and fields.
StrictlyWorse(o, p) ==
    IF o.side = "Buy" THEN p.price_limit < o.price_limit
                      ELSE p.price_limit > o.price_limit

FirstWorse(o, q) ==
    IF \E i \in 1..Len(q) : StrictlyWorse(o, q[i])
    THEN CHOOSE i \in 1..Len(q) :
            /\ StrictlyWorse(o, q[i])
            /\ \A j \in 1..(i - 1) : ~StrictlyWorse(o, q[j])
    ELSE Len(q) + 1

C18_InsertPosition ==
    [][(IsCall /\ Residual(trace') > 0 /\ last'.kind = "Limit") =>
        LET o    == last'
            own  == OwnSide(o, bid, ask)
            own2 == OwnSide(o, bid', ask')
            p    == FirstWorse(o, own)
        IN  /\ Len(own2) = Len(own) + 1
            /\ own2[p].seq = calls'
            /\ own2[p].price_limit = o.price_limit
            /\ own2[p].user_id = o.user_id
            /\ Remove(own2, p) = own]_vars

\* the third order of a side went between an order of its own price and a
\* worse one
C18_Witness ==
    /\ calls = 3
    /\ trace = <<Enqueued(last.size)>>
    /\ LET own == OwnSide(last, bid, ask)
       IN  /\ Len(own) = 3
           /\ own[2].seq = 3
           /\ own[1].price_limit = last.price_limit
           /\ own[3].price_limit # last.price_limit

\* ---------------------------------------------------------------------
\* C19: a call that is a failed FoK calls cancel() exactly once, after its
\* Fulfilled items and immediately before it logs Cancelled; no other call
\* calls cancel().
C19_CancelOnce ==
    [][IsCall =>
        LET t == trace' IN
        IF FokFails(last', Opposing(last', bid, ask))
        THEN /\ CancelCalls(t) = 1
             /\ Len(t) >= 2
             /\ t[Len(t)] = Cancelled(last'.size)
             /\ t[Len(t) - 1] = CancelCall
             /\ \A k \in 1..(Len(t) - 2) : t[k].item = "Fulfilled"
        ELSE CancelCalls(t) = 0]_vars

\* a FoK order traded twice before it was killed
C19_Witness ==
    /\ last.kind = "FillOrKill"
    /\ Len(trace) = 4
    /\ trace[1].item = "Fulfilled"
    /\ trace[2].item = "Fulfilled"
    /\ trace[3] = CancelCall
    /\ trace[4] = Cancelled(last.size)

\* ---------------------------------------------------------------------
\* C20: after a call that left a residual and was not a failed FoK, no
\* order of the opposing queue is price-compatible with the incoming order
\* and owned by another user.
C20_LiquidityExhausted ==
    (calls > 0 /\ Residual(trace) > 0 /\ CancelCalls(trace) = 0) =>
        \A i \in 1..Len(Opposing(last, bid, ask)) :
            LET p == Opposing(last, bid, ask)[i]
            IN  ~(Compatible(last, p) /\ p.user_id # last.user_id)

\* an order traded, kept a residual, and the opposing queue still holds an
\* order of another user
C20_Witness ==
    /\ Residual(trace) > 0
    /\ CancelCalls(trace) = 0
    /\ Fulfilleds(trace) # << >>
    /\ \E i \in 1..Len(Opposing(last, bid, ask)) :
          Opposing(last, bid, ask)[i].user_id # last.user_id

\* ---------------------------------------------------------------------
\* the positions of q2 whose order is in q with another size
Reduced(q, q2) ==
    {j \in 1..Len(q2) :
        \E i \in 1..Len(q) : q[i].seq = q2[j].seq /\ q[i].size # q2[j].size}

\* the order at position j of q2 is the passive order of the last trade f,
\* short of the traded size and not used up
ReducedByTrade(q, q2, j, f) ==
    /\ q2[j].size > 0
    /\ q2[j].user_id = f.user_id
    /\ q2[j].price_limit = f.price
    /\ \E i \in 1..Len(q) :
          q[i].seq = q2[j].seq /\ q[i].size - q2[j].size = f.size

\* C21 as stated: after a committed call at most one passive order of the
\* opposing queue has a reduced size, reduced by the traded amount and
\* still > 0, and that order is at the front (index 0) of the queue.
C21_PartialAtFront ==
    [][(IsCall /\ ~FokFails(last', Opposing(last', bid, ask))) =>
        LET opp   == Opposing(last', bid, ask)
            opp2  == Opposing(last', bid', ask')
            fills == Fulfilleds(trace')
        IN  /\ Cardinality(Reduced(opp, opp2)) <= 1
            /\ \A j \in Reduced(opp, opp2) :
                  /\ fills # << >>
                  /\ ReducedByTrade(opp, opp2, j, fills[Len(fills)])
                  /\ j = 1]_vars

\* C21 amended: after a committed call at most one passive order of the
\* opposing queue has a reduced size, reduced by the traded amount and
\* still > 0, and that order comes right after the restored same-user
\* orders the walk skipped: at the front only when none was skipped.
C21_PartialAfterSkipped ==
    [][(IsCall /\ ~FokFails(last', Opposing(last', bid, ask))) =>
        LET opp   == Opposing(last', bid, ask)
            opp2  == Opposing(last', bid', ask')
            fills == Fulfilleds(trace')
            sk    == Skipped(last', opp, 1, last'.size)
        IN  /\ Cardinality(Reduced(opp, opp2)) <= 1
            /\ \A j \in Reduced(opp, opp2) :
                  /\ fills # << >>
                  /\ ReducedByTrade(opp, opp2, j, fills[Len(fills)])
                  /\ j = Len(sk) + 1]_vars

\* the third call skipped the order of its own user and took a part of the
\* other resting order, which is now second in the queue
C21_Witness ==
    /\ calls = 3
    /\ Len(trace) = 1
    /\ trace[1].item = "Fulfilled"
    /\ LET q == Opposing(last, bid, ask)
       IN  /\ Len(q) = 2
           /\ q[1].user_id = last.user_id
           /\ q[1].seq < 3 /\ q[2].seq < 3
           /\ q[2].user_id = trace[1].user_id
           /\ q[2].price_limit = trace[1].price

\* ---------------------------------------------------------------------
\* the number of orders of q a walk from position i visits, the incoming
\* order o having remaining size left: it ends at the first order that
\* fails the price check (not counted), at the order that fills o, or at
\* the end of q
RECURSIVE Visits(_, _, _, _)
Visits(o, q, i, remaining) ==
    IF i > Len(q) THEN Len(q)
    ELSE IF ~Compatible(o, q[i]) THEN i - 1
    ELSE IF q[i].user_id = o.user_id THEN Visits(o, q, i + 1, remaining)
    ELSE IF remaining <= q[i].size THEN i
    ELSE Visits(o, q, i + 1, remaining - q[i].size)

\* the last n elements of q
Suffix(q, n) == SubSeq(q, Len(q) - n + 1, Len(q))

\* C22: the order at which the walk stops for its price and the orders
\* behind it, and in general all orders the walk does not visit, are after
\* the call the tail of the opposing queue, in their order and with their
\* price_limit, size and user_id.
C22_UnvisitedUnchanged ==
    [][IsCall =>
        LET opp  == Opposing(last', bid, ask)
            opp2 == Opposing(last', bid', ask')
            v    == Visits(last', opp, 1, last'.size)
        IN  /\ Len(opp2) >= Len(opp) - v
            /\ Suffix(opp2, Len(opp) - v) = SubSeq(opp, v + 1, Len(opp))]_vars

\* an IoC order took the best order and stopped at the next one for its
\* price
C22_Witness ==
    /\ last.kind = "ImmediateOrCancel"
    /\ Len(trace) = 2
    /\ trace[1].item = "Fulfilled"
    /\ trace[2].item = "Cancelled"
    /\ Opposing(last, bid, ask) # << >>
    /\ ~Compatible(last, Opposing(last, bid, ask)[1])

\* ---------------------------------------------------------------------
\* C23: a call changes the queue of the incoming order's own side only by
\* inserting the residual of a Limit order: after an IoC order, a FoK order
\* or a Limit order that is filled the own side's queue is the same, and
\* after a Limit order with a residual it is the old queue with one more
\* entry.
C23_OwnSideFrame ==
    [][IsCall =>
        LET o    == last'
            own  == OwnSide(o, bid, ask)
            own2 == OwnSide(o, bid', ask')
        IN  IF o.kind = "Limit" /\ Liquidity(o, Opposing(o, bid, ask)) < o.size
            THEN /\ Len(own2) = Len(own) + 1
                 /\ \E p \in 1..Len(own2) : Remove(own2, p) = own
            ELSE own2 = own]_vars

\* an IoC order traded and kept a residual; the one order of its own side
\* is still alone there
C23_Witness ==
    /\ calls = 3
    /\ last.kind = "ImmediateOrCancel"
    /\ Fulfilleds(trace) # << >>
    /\ trace[Len(trace)].item = "Cancelled"
    /\ Len(OwnSide(last, bid, ask)) = 1

\* ---------------------------------------------------------------------
\* C24: a resting bid and a resting ask at crossing prices (bid price >=
\* ask price) belong to one user.
C24_WeakNonCrossing ==
    \A i \in 1..Len(bid) : \A j \in 1..Len(ask) :
        bid[i].price_limit >= ask[j].price_limit =>
            bid[i].user_id = ask[j].user_id

\* a user's bid and ask rest at one price next to the ask of another user
C24_Witness ==
    /\ \E i \in 1..Len(bid) : \E j \in 1..Len(ask) :
          /\ bid[i].price_limit >= ask[j].price_limit
          /\ bid[i].user_id = ask[j].user_id
    /\ \E i \in 1..Len(bid) : \E j \in 1..Len(ask) :
          bid[i].user_id # ask[j].user_id

\* ---------------------------------------------------------------------
\* C25: a call of any kind whose walk logs no Fulfilled item leaves the
\* opposing queue as it was: the skipped prefix is dropped and pushed back
\* in place.
C25_NoFillNoChange ==
    [][(IsCall /\ Fulfilleds(trace') = << >>) =>
        Opposing(last', bid', ask') = Opposing(last', bid, ask)]_vars

\* an IoC order met two orders of its own user at compatible, different
\* prices and nothing else
C25_Witness ==
    /\ calls = 3
    /\ last.kind = "ImmediateOrCancel"
    /\ trace = <<Cancelled(last.size)>>
    /\ LET q == Opposing(last, bid, ask)
       IN  /\ Len(q) = 2
           /\ \A i \in 1..2 :
                 q[i].user_id = last.user_id /\ Compatible(last, q[i])
           /\ q[1].price_limit # q[2].price_limit

\* ---------------------------------------------------------------------
\* the orders of q the incoming order o can trade with, in queue order
Tradable(o, q) ==
    LET T(p) == Compatible(o, p) /\ p.user_id # o.user_id
    IN  SelectSeq(q, T)

\* C26: the Fulfilled items of a call go through the tradable orders of the
\* opposing queue in queue order, each but the last taking its passive
\* order whole; their prices never get better for the incoming order
\* (non-decreasing for a Buy, non-increasing for a Sell), and of two
\* passive orders of one price the one that arrived first is filled first.
C26_PriceTimePriority ==
    [][IsCall =>
        LET o     == last'
            other == Tradable(o, Opposing(o, bid, ask))
            fills == Fulfilleds(trace')
        IN  /\ Len(fills) <= Len(other)
            /\ \A k \in 1..Len(fills) :
                  /\ fills[k].price = other[k].price_limit
                  /\ fills[k].user_id = other[k].user_id
                  /\ fills[k].size <= other[k].size
                  /\ k < Len(fills) => fills[k].size = other[k].size
            /\ \A k \in 1..(Len(fills) - 1) :
                  /\ IF o.side = "Buy"
                     THEN fills[k].price <= fills[k + 1].price
                     ELSE fills[k].price >= fills[k + 1].price
                  /\ fills[k].price = fills[k + 1].price =>
                        other[k].seq < other[k + 1].seq]_vars

\* two fills at one price: the two passive orders were told apart by
\* their arrival only
C26_Witness ==
    /\ calls = 3
    /\ Len(trace) = 2
    /\ trace[1].item = "Fulfilled" /\ trace[2].item = "Fulfilled"
    /\ trace[1].price = trace[2].price
    /\ trace[1].size # trace[2].size

\* ---------------------------------------------------------------------
\* C27: the book a call yields does not depend on the logger: the call
\* made on the same book with a DummyLogger yields the bid and ask queues
\* the call with the VectorLogger yields.  Both runs start from the empty
\* book, so their books are equal after every call of any sequence.
C27_LoggerIndependence ==
    [][IsCall =>
        LET dummy == ExecuteOrderOn([bid |-> bid, ask |-> ask], last',
                                    DummyLogger, calls')
        IN  /\ dummy.book.bid = bid'
            /\ dummy.book.ask = ask'
            /\ dummy.logger.items = << >>]_vars

\* a FoK order was filled by two passive orders and the VectorLogger holds
\* its items
C27_Witness ==
    /\ calls = 3
    /\ last.kind = "FillOrKill"
    /\ Len(trace) = 2
    /\ trace[1].item = "Fulfilled" /\ trace[2].item = "Fulfilled"
    /\ Len(logger) >= 2
    /\ Opposing(last, bid, ask) = << >>

\* ---------------------------------------------------------------------
\* C28: ReversedVec refines VecDequeQueue.  In every call, match_order on
\* the ReversedVec that iterates as the opposing queue yields a Vec that
\* iterates as the opposing queue after the call, with the same active
\* order, logger and panic outcome; and insert of a resting residual into
\* the ReversedVec that iterates as the own side's queue yields a Vec that
\* iterates as that queue after the call.  The queues start empty, so the
\* two stay equal in iteration order through any sequence of operations.
C28_ReversedVecRefines ==
    [][IsCall =>
        LET o      == last'
            opp    == Opposing(o, bid, ask)
            own    == OwnSide(o, bid, ask)
            tagged == TaggedOrderFrom(o, calls')
            m  == MatchOrder(Other(o.side), opp, tagged, o.kind,
                             VectorLogger(logger))
            rm == ReversedVecMatchOrder(Other(o.side), ReversedVecIter(opp),
                                        tagged, o.kind, VectorLogger(logger))
        IN  /\ ReversedVecIter(rm.q) = Opposing(o, bid', ask')
            /\ rm.order = m.order
            /\ rm.logger = m.logger
            /\ rm.panic = m.panic
            /\ (Rests(o.kind) /\ rm.order.size > 0) =>
                  ReversedVecIter(
                      ReversedVecInsert(o.side, ReversedVecIter(own),
                                        rm.order))
                  = OwnSide(o, bid', ask')]_vars

\* a call whose walk skipped an order, which was pushed back to the front,
\* and dropped the order it traded with, and whose residual was inserted
C28_Witness ==
    /\ calls = 3
    /\ Len(trace) = 2
    /\ trace[1].item = "Fulfilled"
    /\ trace[2].item = "Enqueued"
    /\ Len(Opposing(last, bid, ask)) = 1
    /\ Opposing(last, bid, ask)[1].user_id = last.user_id
    /\ Compatible(last, Opposing(last, bid, ask)[1])

\* ---------------------------------------------------------------------
\* C29 as stated: a call with an order of size 0, of any kind and on any
\* book, leaves both queues as they were and logs no item.
C29_ZeroSizeNoOp ==
    [][(IsCall /\ last'.size = 0) =>
        /\ bid' = bid
        /\ ask' = ask
        /\ trace' = << >>]_vars

\* what the code does with an order of size 0: the book is unchanged, but
\* the call logs a Fulfilled item of size 0 whenever the opposing queue
\* holds a price-compatible order of another user
ZeroSizeLogsEmptyFill ==
    [][(IsCall /\ last'.size = 0) =>
        LET other == Tradable(last', Opposing(last', bid, ask))
        IN  /\ bid' = bid
            /\ ask' = ask
            /\ ~panicked'
            /\ trace' = IF other = << >> THEN << >>
                        ELSE <<FulfilledItem(0, other[1].price_limit,
                                             other[1].user_id)>>]_vars

====
